---- MODULE Spec2Model ----
(***************************************************************************)
(* Model of the cisco.nd compliance-requirement reconciler                 *)
(* (plugins/modules/nd_compliance_requirement_config_template.py, main)    *)
(* and of the NDI query helpers (plugins/module_utils/ndi.py).             *)
(*                                                                         *)
(* Python dicts are functions whose domain is a set of strings; Python     *)
(* None is the string NoneVal; file names and bucket names, which the code *)
(* parses, are sequences of one-character strings.                         *)
(***************************************************************************)
EXTENDS Integers, Sequences, FiniteSets, TLC

VARIABLES
    \* ---- the remote service and one invocation of main() ----
    svc,            \* the service's requirement records of the insights group
    svcAtStart,     \* history: svc when the current invocation started
    params,         \* nd.params / module.check_mode of the invocation
    pc,             \* position of the invocation in main()
    uuid,           \* main: uuid
    existing,       \* nd.existing
    previous,       \* nd.previous
    payload,        \* main: payload
    aliased,        \* nd.existing and payload are the same dict object (line 193)
    log,            \* requests the invocation has issued, in order
    located,        \* history: nd.existing as set_requirement_details left it
    prevAtRequest,  \* history: <<nd.previous>> when the mutating request was issued
    previousSet,    \* history: main has assigned nd.previous
    changed,        \* result["changed"] as exit_json reports it
    failMsg,        \* msg of fail_json, or the exception raised
    run,            \* number of the invocation
    prevLog,        \* history: log of the invocation before this one
    prevMode,       \* history: "none", "dry" or "wet" (the invocation before)
    \* ---- one call of an NDI helper ----
    ndiCall,        \* the call: [op, ...arguments, the service's answers]
    ndiPc,          \* "ready", "returned", "failed" (fail_json) or "raised"
    ndiResult,      \* the value returned
    ndiQueries      \* paths given to nd.query_obj, in order

mainVars == <<svc, svcAtStart, params, pc, uuid, existing, previous, payload,
              aliased, log, located, prevAtRequest, previousSet, changed,
              failMsg, run, prevLog, prevMode>>
ndiVars == <<ndiCall, ndiPc, ndiResult, ndiQueries>>
vars == <<mainVars, ndiVars>>

\* ------------------------------------------------------------------ bounds

\* invocations of main() in a row with the same desired state
MaxRuns == 2
\* entries in a list given to a formatter, and items nested in one entry
MaxEntries == 2

\* ------------------------------------------------------------ Python values

NoneVal == "None"
EmptyDict == [k \in {} |-> TRUE]

\* dict.get(key): None when the key is missing
Get(d, k) == IF k \in DOMAIN d THEN d[k] ELSE NoneVal
\* dict.update(key=value)
Update(d, k, v) == [x \in DOMAIN d \cup {k} |-> IF x = k THEN v ELSE d[x]]
\* truthiness of a str-or-None value
Truthy(v) == v # NoneVal /\ v # ""

\* position of the last c in s, 0 when there is none
LastIndex(s, c) ==
    LET hits == {i \in 1..Len(s) : s[i] = c}
    IN  IF hits = {} THEN 0 ELSE CHOOSE i \in hits : \A j \in hits : j <= i

\* os.path.basename
Basename(p) == SubSeq(p, LastIndex(p, "/") + 1, Len(p))

\* str.rsplit(".", 1): one element when s holds no dot, else two
RSplitDot(s) ==
    LET i == LastIndex(s, ".")
    IN  IF i = 0 THEN <<s>> ELSE <<SubSeq(s, 1, i - 1), SubSeq(s, i + 1, Len(s))>>

\* "{0}.{1}".format(a, b)
FormatDot(a, b) == a \o <<".">> \o b

\* str(dict.get(key)) of a file-name field: a missing field formats as "None"
GetStr(d, k) == IF k \in DOMAIN d THEN d[k] ELSE <<"N", "o", "n", "e">>

Cwd == <<"/", "w">>
\* os.path.abspath of a path without "." or ".." segments
Abspath(p) == IF Len(p) > 0 /\ p[1] = "/" THEN p ELSE Cwd \o <<"/">> \o p

\* ------------------------------------------------- the service (collaborator)

InsightsGroup == "ig1"
TemplateType == "TEMPLATE_BASED_CONFIGURATION_COMPLIANCE"

\* obj['value']['data'][0]['assuranceEntities'] of the insights group
AssuranceEntities ==
    << [name |-> "siteA", uuid |-> "s1"], [name |-> "siteB", uuid |-> "s2"] >>

\* NDI.get_site_id: the uuid of the first entity of that name, None (the
\* function falls off its end) when no entity has it. main() passes the
\* insights group ahead of the site name; the scan is by the site name.
GetSiteId(site_name) ==
    LET hits == {i \in 1..Len(AssuranceEntities) : AssuranceEntities[i].name = site_name}
    IN  IF hits = {} THEN NoneVal
        ELSE AssuranceEntities[CHOOSE i \in hits : \A j \in hits : i <= j].uuid

\* ndi.requirements_path.format(insights_group)
RequirementsPath == <<"requirements", InsightsGroup>>
SitesPath == <<"config/insightsGroup">>

\* a requirement record as the service holds it
SvcRecord(nm, en, siteUuids, desc, fname, fext, sel, cfgType, id) ==
    LET base == [name |-> nm,
                 enabled |-> en,
                 configurationType |-> cfgType,
                 requirementType |-> "CONFIGURATION_COMPLIANCE",
                 associatedSites |->
                     [i \in 1..Len(siteUuids) |-> [enabled |-> TRUE, uuid |-> siteUuids[i]]],
                 enableEqualityCheck |-> FALSE,
                 uploadFileType |-> "TEMPLATE_BASED_CONFIG",
                 enableSelectorBasedOnTags |-> sel,
                 uuid |-> id,
                 uploadedFileName |-> fname,
                 uploadedFileExtension |-> fext,
                 lastEditedDate |-> 0,
                 links |-> <<>>]
    IN  IF desc = NoneVal THEN base ELSE Update(base, "description", desc)

\* the service's answer to DELETE {"ids": [...]}: those records are gone
SvcDelete(s, ids) ==
    SelectSeq(s, LAMBDA r : ~(\E i \in 1..Len(ids) : r.uuid = ids[i]))

\* the record the service creates from a file-upload POST: the payload's
\* fields, a fresh uuid, and the name and extension of the uploaded file
SvcCreate(data, file) ==
    LET parts == RSplitDot(Basename(file))
        fields == [k \in (DOMAIN data) \ {"uploadedFileName"} |-> data[k]]
        named == Update(Update(fields, "uuid", "u2"), "uploadedFileName", parts[1])
        ext == Update(named, "uploadedFileExtension",
                      IF Len(parts) = 2 THEN parts[2] ELSE <<>>)
    IN  Update(Update(ext, "lastEditedDate", 0), "links", <<>>)

\* the record after PATCH: the fields sent replace the record's
SvcPatched(r, data) ==
    LET merged == [k \in DOMAIN r \cup DOMAIN data |->
                       IF k \in DOMAIN data THEN data[k] ELSE r[k]]
    IN  Update(merged, "lastEditedDate", r.lastEditedDate + 1)

SvcPatch(s, id, data) ==
    [i \in 1..Len(s) |-> IF s[i].uuid = id THEN SvcPatched(s[i], data) ELSE s[i]]

\* ------------------------------------------------------ nd.py (collaborator)

\* sanitize_dict(d, keys): d without the keys
SanitizeDict(d, keys) == [k \in (DOMAIN d) \ keys |-> d[k]]

\* NDI.set_requirement_details: nd.existing becomes the first requirement of
\* that name ({} when there is none), the whole list when no name is given
LocateExisting(requirements, name) ==
    IF name = NoneVal THEN requirements
    ELSE LET hits == {i \in 1..Len(requirements) : Get(requirements[i], "name") = name}
         IN  IF hits = {} THEN EmptyDict
             ELSE requirements[CHOOSE i \in hits : \A j \in hits : i <= j]

\* ... and its return value: the uuid of that requirement, else None
LocateUuid(requirements, name) ==
    IF name = NoneVal THEN NoneVal
    ELSE Get(LocateExisting(requirements, name), "uuid")

\* NDModule.exit_json: changed when previous differs from existing
ExitChanged(state, prev, exist) ==
    state \in {"absent", "present"} /\ prev # exist

\* one request as the HTTP client sees it
Request(method, path, data, file) ==
    [method |-> method, path |-> path, data |-> data, file |-> file]

Mutating(e) == e.method \in {"POST", "PATCH", "DELETE"}
MutLog(l) == SelectSeq(l, Mutating)

\* ------------------------------------------------------------------ main()

\* main: delete_keys
delete_keys ==
    {"complianceRequirementAttachments", "uuid", "insightsGroupName", "isAllTraffic",
     "lastEditedDate", "removeNonConfigAttributes", "uploadedFileSize",
     "uploadedFileUploadDate", "links", "uploadedFileExtension", "uploadedFileName"}

\* main: the list comprehension that keeps the template-based requirements
FilterRequirements(data) ==
    SelectSeq(data, LAMBDA item : Get(item, "configurationType") = TemplateType)

\* main: `state == "absent" and uuid`
\* variant: the uuid is not tested
IsDeleteBranch_AnyUuid == params.state = "absent"
IsDeleteBranch == params.state = "absent" /\ uuid # NoneVal

\* main: `elif state == "present"`
IsPresentBranch == ~IsDeleteBranch /\ params.state = "present"

\* main: the file of the existing requirement is not the file given
\* variant: the extension is not compared
FileNameMismatch_StemOnly ==
    /\ uuid # NoneVal
    /\ GetStr(existing, "uploadedFileName") # RSplitDot(Basename(params.file))[1]
FileNameMismatch ==
    /\ uuid # NoneVal
    /\ FormatDot(GetStr(existing, "uploadedFileName"),
                 GetStr(existing, "uploadedFileExtension")) # Basename(params.file)

\* main: payload, as built from the parameters and nd.existing
BuildPayload(exist) ==
    LET base == [name |-> params.name,
                 enabled |-> params.enabled,
                 configurationType |-> TemplateType,
                 requirementType |-> "CONFIGURATION_COMPLIANCE",
                 associatedSites |->
                     [i \in 1..Len(params.sites) |->
                         [enabled |-> TRUE, uuid |-> GetSiteId(params.sites[i])]],
                 enableEqualityCheck |-> FALSE,
                 uploadFileType |-> "TEMPLATE_BASED_CONFIG",
                 enableSelectorBasedOnTags |-> params.selector_based_on_tags]
    IN  IF Truthy(params.description) THEN Update(base, "description", params.description)
        ELSE IF Truthy(Get(exist, "description")) THEN Update(base, "description", " ")
        ELSE base

\* main: `not module.check_mode and payload != nd.previous`
\* variants: the payload is not compared; check mode is not tested
NeedsRequest_Always == ~params.check_mode
NeedsRequest_IgnoreCheckMode == payload # previous
NeedsRequest == ~params.check_mode /\ payload # previous

\* main: method = "POST", or "PATCH" when a uuid was found
\* variant: PATCH whether or not a uuid was found
RequestMethod_AlwaysPatch == "PATCH"
RequestMethod == IF uuid # NoneVal THEN "PATCH" ELSE "POST"

\* main: the request of the present branch; payload.update() has already
\* added the uuid (PATCH) or the file given as uploadedFileName (upload)
PresentRequest(method, data) ==
    IF uuid # NoneVal
    THEN Request(method, RequirementsPath \o <<uuid>>, data, NoneVal)
    ELSE Request(method, RequirementsPath \o <<"file">>, data, Abspath(params.file))

PayloadSent ==
    IF uuid # NoneVal THEN Update(payload, "uuid", uuid)
    ELSE Update(payload, "uploadedFileName", params.file)

\* main: data of the DELETE
\* variant: the name in place of the uuid
DeleteData_Name == [ids |-> <<params.name>>]
DeleteData == [ids |-> <<uuid>>]

\* ---- inputs

Files == { <<"a", ".", "j">>, <<"b", ".", "j">>, <<"d", "/", "a", ".", "j">>, <<"a">> }

\* nd.params as AnsibleModule admits them (required_if: absent needs name;
\* present needs name, sites, enabled and file)
ParamSets ==
    [insights_group : {InsightsGroup}, state : {"query"}, name : {NoneVal, "req1"},
     description : {NoneVal}, enabled : {NoneVal}, sites : {NoneVal}, file : {NoneVal},
     selector_based_on_tags : {FALSE}, check_mode : BOOLEAN]
    \cup
    [insights_group : {InsightsGroup}, state : {"absent"}, name : {"req1"},
     description : {NoneVal}, enabled : {NoneVal}, sites : {NoneVal}, file : {NoneVal},
     selector_based_on_tags : {FALSE}, check_mode : BOOLEAN]
    \cup
    [insights_group : {InsightsGroup}, state : {"present"}, name : {"req1"},
     description : {NoneVal, "", "d1"}, enabled : BOOLEAN,
     sites : {<<"siteA">>, <<"siteB", "siteA">>, <<"siteX">>}, file : Files,
     selector_based_on_tags : BOOLEAN, check_mode : BOOLEAN]

\* template-based requirements named req1 the service may hold at the start
InitialRecords ==
    { SvcRecord("req1", en, su, desc, <<"a">>, fext, FALSE, TemplateType, "u1") :
        en \in BOOLEAN, su \in {<<"s1">>, <<"s2", "s1">>},
        desc \in {NoneVal, "d0"}, fext \in {<<"j">>, <<"k">>} }

\* a requirement of another kind that carries the same name
OtherKind ==
    SvcRecord("req1", TRUE, <<"s1">>, NoneVal, <<"a">>, <<"j">>, FALSE,
              "OTHER_CONFIGURATION_COMPLIANCE", "u9")

InitialServices ==
    {<<>>, <<OtherKind>>} \cup {<<r>> : r \in InitialRecords}
    \cup {<<OtherKind, r>> : r \in {x \in InitialRecords : x.enabled /\ "description" \in DOMAIN x}}

\* the NDI call of a behaviour that runs main()
NoCall == [op |-> "none"]

\* the locals of main() before it runs
FreshLocals ==
    /\ pc = "start"
    /\ uuid = NoneVal
    /\ existing = EmptyDict
    /\ previous = EmptyDict
    /\ payload = EmptyDict
    /\ aliased = FALSE
    /\ log = <<>>
    /\ located = EmptyDict
    /\ prevAtRequest = <<>>
    /\ previousSet = FALSE
    /\ changed = FALSE
    /\ failMsg = NoneVal

Init ==
    /\ svc \in InitialServices
    /\ svcAtStart = svc
    /\ params \in ParamSets
    /\ FreshLocals
    /\ run = 1
    /\ prevLog = <<>>
    /\ prevMode = "none"
    /\ ndiCall = NoCall
    /\ ndiPc = "ready"
    /\ ndiResult = NoneVal
    /\ ndiQueries = <<>>

\* ---- steps of main()

\* query_requirements, the filter on the configuration type, and
\* set_requirement_details
Locate ==
    /\ pc = "start"
    /\ LET requirements == FilterRequirements(svc)
       IN  /\ existing' = LocateExisting(requirements, params.name)
           /\ located' = LocateExisting(requirements, params.name)
           /\ uuid' = LocateUuid(requirements, params.name)
    /\ log' = Append(log, Request("GET", RequirementsPath, NoneVal, NoneVal))
    /\ pc' = "located"
    /\ UNCHANGED <<svc, svcAtStart, params, previous, payload, aliased, prevAtRequest,
                   previousSet, changed, failMsg, run, prevLog, prevMode, ndiVars>>

\* state == "absent" and uuid: nd.previous = sanitize_dict(nd.existing, delete_keys)
AbsentSnapshot ==
    /\ pc = "located"
    /\ IsDeleteBranch
    /\ previous' = SanitizeDict(existing, delete_keys)
    /\ previousSet' = TRUE
    /\ pc' = "absent_snap"
    /\ UNCHANGED <<svc, svcAtStart, params, uuid, existing, payload, aliased, log,
                   located, prevAtRequest, changed, failMsg, run, prevLog, prevMode,
                   ndiVars>>

\* not check_mode: the DELETE succeeds; then nd.existing = {}
AbsentDelete ==
    /\ pc = "absent_snap"
    /\ ~params.check_mode
    /\ log' = Append(log, Request("DELETE", RequirementsPath, DeleteData, NoneVal))
    /\ prevAtRequest' = <<previous>>
    /\ svc' = SvcDelete(svc, DeleteData.ids)
    /\ existing' = EmptyDict
    /\ pc' = "exit"
    /\ UNCHANGED <<svcAtStart, params, uuid, previous, payload, aliased, located,
                   previousSet, changed, failMsg, run, prevLog, prevMode, ndiVars>>

\* not check_mode: the service refuses the DELETE and nd.request fails the module
AbsentDeleteFails ==
    /\ pc = "absent_snap"
    /\ ~params.check_mode
    /\ log' = Append(log, Request("DELETE", RequirementsPath, DeleteData, NoneVal))
    /\ prevAtRequest' = <<previous>>
    /\ failMsg' = "service error"
    /\ pc' = "failed"
    /\ UNCHANGED <<svc, svcAtStart, params, uuid, existing, previous, payload, aliased,
                   located, previousSet, changed, run, prevLog, prevMode, ndiVars>>

\* check_mode: no request; nd.existing = {}
AbsentDryRun ==
    /\ pc = "absent_snap"
    /\ params.check_mode
    /\ existing' = EmptyDict
    /\ pc' = "exit"
    /\ UNCHANGED <<svc, svcAtStart, params, uuid, previous, payload, aliased, log,
                   located, prevAtRequest, previousSet, changed, failMsg, run, prevLog,
                   prevMode, ndiVars>>

\* state == "present", a uuid, and another file: fail_json
PresentFileMismatch ==
    /\ pc = "located"
    /\ IsPresentBranch
    /\ FileNameMismatch
    /\ failMsg' = "file mismatch"
    /\ pc' = "failed"
    /\ UNCHANGED <<svc, svcAtStart, params, uuid, existing, previous, payload, aliased,
                   log, located, prevAtRequest, previousSet, changed, run, prevLog,
                   prevMode, ndiVars>>

\* state == "present": nd.previous = sanitize_dict(nd.existing, delete_keys)
\* variant: nd.previous is not assigned ahead of the request
PresentSnapshot_Skipped ==
    /\ pc = "located"
    /\ IsPresentBranch
    /\ ~FileNameMismatch
    /\ pc' = "present_snap"
    /\ UNCHANGED <<svc, svcAtStart, params, uuid, existing, previous, payload, aliased,
                   log, located, prevAtRequest, previousSet, changed, failMsg, run,
                   prevLog, prevMode, ndiVars>>
PresentSnapshot ==
    /\ pc = "located"
    /\ IsPresentBranch
    /\ ~FileNameMismatch
    /\ previous' = SanitizeDict(existing, delete_keys)
    /\ previousSet' = TRUE
    /\ pc' = "present_snap"
    /\ UNCHANGED <<svc, svcAtStart, params, uuid, existing, payload, aliased, log,
                   located, prevAtRequest, changed, failMsg, run, prevLog, prevMode,
                   ndiVars>>

\* the payload; get_site_id reads the site list once for every site
PresentPayload ==
    /\ pc = "present_snap"
    /\ payload' = BuildPayload(existing)
    /\ log' = log \o [i \in 1..Len(params.sites) |->
                         Request("GET", SitesPath, NoneVal, NoneVal)]
    /\ pc' = "present_payload"
    /\ UNCHANGED <<svc, svcAtStart, params, uuid, existing, previous, aliased, located,
                   prevAtRequest, previousSet, changed, failMsg, run, prevLog, prevMode,
                   ndiVars>>

\* the PATCH or the file upload succeeds;
\* nd.existing = sanitize_dict(response["value"]["data"], delete_keys)
PresentSend ==
    /\ pc = "present_payload"
    /\ NeedsRequest
    /\ LET req == PresentRequest(RequestMethod, PayloadSent)
           stored == IF uuid # NoneVal THEN SvcPatch(svc, uuid, req.data)
                     ELSE Append(svc, SvcCreate(req.data, req.file))
           hits == {i \in 1..Len(stored) :
                        stored[i].uuid = (IF uuid # NoneVal THEN uuid ELSE "u2")}
           data == IF hits = {} THEN EmptyDict ELSE stored[CHOOSE i \in hits : TRUE]
       IN  /\ log' = Append(log, req)
           /\ svc' = stored
           /\ payload' = req.data
           /\ existing' = SanitizeDict(data, delete_keys)
    /\ prevAtRequest' = <<previous>>
    /\ aliased' = FALSE
    /\ pc' = "present_set"
    /\ UNCHANGED <<svcAtStart, params, uuid, previous, located, previousSet, changed,
                   failMsg, run, prevLog, prevMode, ndiVars>>

\* the service refuses the request and nd.request fails the module
PresentSendFails ==
    /\ pc = "present_payload"
    /\ NeedsRequest
    /\ log' = Append(log, PresentRequest(RequestMethod, PayloadSent))
    /\ payload' = PayloadSent
    /\ prevAtRequest' = <<previous>>
    /\ failMsg' = "service error"
    /\ pc' = "failed"
    /\ UNCHANGED <<svc, svcAtStart, params, uuid, existing, previous, aliased, located,
                   previousSet, changed, run, prevLog, prevMode, ndiVars>>

\* else: nd.existing = payload (the same dict)
PresentKeep ==
    /\ pc = "present_payload"
    /\ ~NeedsRequest
    /\ existing' = payload
    /\ aliased' = TRUE
    /\ pc' = "present_set"
    /\ UNCHANGED <<svc, svcAtStart, params, uuid, previous, payload, log, located,
                   prevAtRequest, previousSet, changed, failMsg, run, prevLog, prevMode,
                   ndiVars>>

\* filename, extension = basename(file).rsplit(".", 1), then both dicts get
\* uploadedFileExtension and uploadedFileName
WithFileFields(d) ==
    LET parts == RSplitDot(Basename(params.file))
    IN  Update(Update(d, "uploadedFileExtension", parts[2]), "uploadedFileName", parts[1])

PresentFileFields ==
    /\ pc = "present_set"
    /\ Len(RSplitDot(Basename(params.file))) = 2
    /\ previous' = WithFileFields(previous)
    /\ existing' = WithFileFields(existing)
    /\ payload' = IF aliased THEN WithFileFields(payload) ELSE payload
    /\ pc' = "exit"
    /\ UNCHANGED <<svc, svcAtStart, params, uuid, aliased, log, located, prevAtRequest,
                   previousSet, changed, failMsg, run, prevLog, prevMode, ndiVars>>

\* the file given has no extension: the unpacking raises ValueError
PresentFileCrash ==
    /\ pc = "present_set"
    /\ Len(RSplitDot(Basename(params.file))) # 2
    /\ failMsg' = "ValueError"
    /\ pc' = "crashed"
    /\ UNCHANGED <<svc, svcAtStart, params, uuid, existing, previous, payload, aliased,
                   log, located, prevAtRequest, previousSet, changed, run, prevLog,
                   prevMode, ndiVars>>

\* neither branch: state == "query", or "absent" without a uuid
NoBranch ==
    /\ pc = "located"
    /\ ~IsDeleteBranch
    /\ ~IsPresentBranch
    /\ pc' = "exit"
    /\ UNCHANGED <<svc, svcAtStart, params, uuid, existing, previous, payload, aliased,
                   log, located, prevAtRequest, previousSet, changed, failMsg, run,
                   prevLog, prevMode, ndiVars>>

\* nd.exit_json()
ExitJson ==
    /\ pc = "exit"
    /\ changed' = ExitChanged(params.state, previous, existing)
    /\ pc' = "done"
    /\ UNCHANGED <<svc, svcAtStart, params, uuid, existing, previous, payload, aliased,
                   log, located, prevAtRequest, previousSet, failMsg, run, prevLog,
                   prevMode, ndiVars>>

\* main() is run again with the same desired state, after it succeeded
Reinvoke ==
    /\ pc = "done"
    /\ run < MaxRuns
    /\ run' = run + 1
    /\ prevLog' = log
    /\ prevMode' = IF params.check_mode THEN "dry" ELSE "wet"
    /\ \E cm \in BOOLEAN : params' = [params EXCEPT !.check_mode = cm]
    /\ svcAtStart' = svc
    /\ pc' = "start"
    /\ uuid' = NoneVal
    /\ existing' = EmptyDict
    /\ previous' = EmptyDict
    /\ payload' = EmptyDict
    /\ aliased' = FALSE
    /\ log' = <<>>
    /\ located' = EmptyDict
    /\ prevAtRequest' = <<>>
    /\ previousSet' = FALSE
    /\ changed' = FALSE
    /\ failMsg' = NoneVal
    /\ UNCHANGED <<svc, ndiVars>>

Next ==
    \/ Locate
    \/ AbsentSnapshot
    \/ AbsentDelete
    \/ AbsentDeleteFails
    \/ AbsentDryRun
    \/ PresentFileMismatch
    \/ PresentSnapshot
    \/ PresentPayload
    \/ PresentSend
    \/ PresentSendFails
    \/ PresentKeep
    \/ PresentFileFields
    \/ PresentFileCrash
    \/ NoBranch
    \/ ExitJson
    \/ Reinvoke

Spec == Init /\ [][Next]_vars

\* ------------------------------------------------------------ NDI helpers

\* str.lower() over the letters the bucket names use
LowerChar(c) ==
    CASE c = "A" -> "a" [] c = "B" -> "b" [] c = "C" -> "c" [] c = "E" -> "e"
      [] c = "R" -> "r" [] c = "W" -> "w" [] OTHER -> c
Lower(s) == [i \in 1..Len(s) |-> LowerChar(s[i])]

\* bucket.lower().split('_')[-1]
SeverityType(bucket) ==
    LET low == Lower(bucket) IN SubSeq(low, LastIndex(low, "_") + 1, Len(low))

\* NDI.format_event_severity: the inner loop over each.get("output") ...
RECURSIVE SeverityEpochs(_, _)
SeverityEpochs(outputs, acc) ==
    IF outputs = <<>> THEN acc
    ELSE SeverityEpochs(Tail(outputs),
                        Update(acc, Lower(Head(outputs).bucket), Head(outputs).count))

\* ... and the outer loop: result[event_severity_type] = {} and then its epochs
RECURSIVE SeverityLoop(_, _)
SeverityLoop(events, result) ==
    IF events = <<>> THEN result
    ELSE LET each == Head(events)
         IN  SeverityLoop(Tail(events),
                          Update(result, SeverityType(each.bucket),
                                 SeverityEpochs(each.output, EmptyDict)))

format_event_severity(events_severity) == SeverityLoop(events_severity, EmptyDict)

\* NDI.format_impacted_resource: the loops over output.get("output") ...
RECURSIVE ResourceEpochs(_, _)
ResourceEpochs(epochs, acc) ==
    IF epochs = <<>> THEN acc
    ELSE ResourceEpochs(Tail(epochs),
                        Update(acc, Lower(Head(epochs).bucket), Head(epochs).count))

\* ... over each.get("output") ...
RECURSIVE ResourceOutputs(_, _)
ResourceOutputs(outputs, acc) ==
    IF outputs = <<>> THEN acc
    ELSE ResourceOutputs(Tail(outputs), ResourceEpochs(Head(outputs).output, acc))

\* ... and over the resources: result[resource] = {} and then its epochs
RECURSIVE ResourceLoop(_, _)
ResourceLoop(resources, result) ==
    IF resources = <<>> THEN result
    ELSE LET each == Head(resources)
         IN  ResourceLoop(Tail(resources),
                          Update(result, Lower(each.bucket),
                                 ResourceOutputs(each.output, EmptyDict)))

format_impacted_resource(impacted_resource) == ResourceLoop(impacted_resource, EmptyDict)

\* NDI.query_pcvs: the path it reads
PcvsPath(ig_name) ==
    <<"config/insightsGroup", ig_name, "prechangeAnalysis?$sort=-analysisSubmissionTime">>

\* NDI.query_pcv: pcv_path
PcvPath(ig_name, site_name) ==
    <<"config/insightsGroup", ig_name, "fabric", site_name, "prechangeAnalysis">>

\* what the service answers for the job of a pre-change validation
JobData(job_id) == [jobId |-> job_id, analysisStatus |-> "COMPLETED"]

\* NDI.get_pre_change_result: the jobs of the validations of that name and
\* site, in the order of the list; every one is read
MatchingJobs(pcv_results, name, site_id) ==
    LET hit == SelectSeq(pcv_results,
                         LAMBDA pcv : Get(pcv, "name") = name
                                      /\ Get(pcv, "fabricUuid") = site_id)
    IN  [i \in 1..Len(hit) |-> Get(hit[i], "jobId")]

\* ... and its result: the data of the last one read, {} when none matches
get_pre_change_result(pcv_results, name, site_id) ==
    LET jobs == MatchingJobs(pcv_results, name, site_id)
    IN  IF jobs = <<>> THEN EmptyDict ELSE JobData(jobs[Len(jobs)])

\* NDI.get_epochs: the path it reads
EpochsPath(ig_name, site_name) ==
    <<"events/insightsGroup", ig_name, "fabric", site_name,
      "epochs?$size=1&$status=FINISHED">>

\* ---- inputs

\* lists of leaf buckets {bucket, count}
LeafLists ==
    { <<>>,
      << [bucket |-> <<"E", "1">>, count |-> 1] >>,
      << [bucket |-> <<"E", "2">>, count |-> 2] >>,
      << [bucket |-> <<"E", "1">>, count |-> 1], [bucket |-> <<"E", "2">>, count |-> 2] >>,
      << [bucket |-> <<"E", "1">>, count |-> 1], [bucket |-> <<"e", "1">>, count |-> 2] >> }

SeverityEntries ==
    [bucket : { <<"A", "_", "C">>, <<"B", "_", "C">>, <<"W">> }, output : LeafLists]

\* the middle level of an impacted-resource entry
ResourceOutputLists ==
    { <<>>,
      << [bucket |-> <<"x">>, output |-> << [bucket |-> <<"E", "1">>, count |-> 1] >>] >>,
      << [bucket |-> <<"x">>,
          output |-> << [bucket |-> <<"E", "1">>, count |-> 1],
                        [bucket |-> <<"E", "2">>, count |-> 2] >>] >>,
      << [bucket |-> <<"x">>, output |-> << [bucket |-> <<"E", "1">>, count |-> 1] >>],
         [bucket |-> <<"y">>, output |-> << [bucket |-> <<"E", "2">>, count |-> 2] >>] >>,
      << [bucket |-> <<"x">>, output |-> << [bucket |-> <<"E", "1">>, count |-> 1] >>],
         [bucket |-> <<"y">>, output |-> << [bucket |-> <<"E", "1">>, count |-> 2] >>] >> }

ResourceEntries ==
    [bucket : { <<"R">>, <<"r">>, <<"W">> }, output : ResourceOutputLists]

\* the sequences over S of length at most n
SeqUpTo(S, n) == UNION { [1..k -> S] : k \in 0..n }

\* the pre-change validations the service lists
PcvLists ==
    { <<>>,
      << [name |-> "pcv1", fabricUuid |-> "s1", jobId |-> "j1"] >>,
      << [name |-> "pcv1", fabricUuid |-> "s2", jobId |-> "j2"],
         [name |-> "pcv1", fabricUuid |-> "s1", jobId |-> "j1"] >>,
      << [name |-> "pcv1", fabricUuid |-> "s1", jobId |-> "j1"],
         [name |-> "pcv2", fabricUuid |-> "s1", jobId |-> "j2"],
         [name |-> "pcv1", fabricUuid |-> "s1", jobId |-> "j3"] >> }

\* the data the service answers to the epochs query
EpochLists ==
    { <<>>,
      << [epochId |-> "e1"] >>,
      << [epochId |-> "e2"] >> }

NdiCalls ==
    [op : {"query_pcv"}, ig_name : {InsightsGroup},
     site_name : {NoneVal, "siteA", "siteB", "siteX"},
     pcv_name : {NoneVal, "pcv1", "pcv2"}, pcvs : PcvLists]
    \cup
    [op : {"get_epochs"}, ig_name : {InsightsGroup}, site_name : {"siteA", "siteB"},
     data : EpochLists]
    \cup
    [op : {"format_event_severity"}, input : SeqUpTo(SeverityEntries, MaxEntries)]
    \cup
    [op : {"format_impacted_resource"}, input : SeqUpTo(ResourceEntries, MaxEntries)]

InitNDI ==
    /\ svc = <<>>
    /\ svcAtStart = <<>>
    /\ params = [state |-> "none"]
    /\ pc = "none"
    /\ uuid = NoneVal
    /\ existing = EmptyDict
    /\ previous = EmptyDict
    /\ payload = EmptyDict
    /\ aliased = FALSE
    /\ log = <<>>
    /\ located = EmptyDict
    /\ prevAtRequest = <<>>
    /\ previousSet = FALSE
    /\ changed = FALSE
    /\ failMsg = NoneVal
    /\ run = 0
    /\ prevLog = <<>>
    /\ prevMode = "none"
    /\ ndiCall \in NdiCalls
    /\ ndiPc = "ready"
    /\ ndiResult = NoneVal
    /\ ndiQueries = <<>>

\* ---- the calls

\* NDI.query_pcv with a site name and a validation name
QueryPcv ==
    /\ ndiPc = "ready"
    /\ ndiCall.op = "query_pcv"
    /\ ndiCall.pcv_name # NoneVal /\ ndiCall.site_name # NoneVal
    /\ LET pcv_results == ndiCall.pcvs
           site_id == GetSiteId(ndiCall.site_name)
           pcv_path == PcvPath(ndiCall.ig_name, ndiCall.site_name)
           jobs == MatchingJobs(pcv_results, ndiCall.pcv_name, site_id)
       IN  /\ ndiQueries' = <<PcvsPath(ndiCall.ig_name), SitesPath>>
                            \o [i \in 1..Len(jobs) |-> pcv_path \o <<jobs[i]>>]
           /\ ndiResult' = get_pre_change_result(pcv_results, ndiCall.pcv_name, site_id)
    /\ ndiPc' = "returned"
    /\ UNCHANGED <<mainVars, ndiCall>>

\* NDI.query_pcv without one of them: query_pcvs has run, then fail_json
QueryPcvFails ==
    /\ ndiPc = "ready"
    /\ ndiCall.op = "query_pcv"
    /\ ~(ndiCall.pcv_name # NoneVal /\ ndiCall.site_name # NoneVal)
    /\ ndiQueries' = <<PcvsPath(ndiCall.ig_name)>>
    /\ ndiPc' = "failed"
    /\ UNCHANGED <<mainVars, ndiCall, ndiResult>>

\* NDI.get_epochs: obj['value']['data'][0]
GetEpochs ==
    /\ ndiPc = "ready"
    /\ ndiCall.op = "get_epochs"
    /\ ndiCall.data # <<>>
    /\ ndiQueries' = <<EpochsPath(ndiCall.ig_name, ndiCall.site_name)>>
    /\ ndiResult' = ndiCall.data[1]
    /\ ndiPc' = "returned"
    /\ UNCHANGED <<mainVars, ndiCall>>

\* NDI.get_epochs on an empty data list: the subscript raises IndexError
GetEpochsRaises ==
    /\ ndiPc = "ready"
    /\ ndiCall.op = "get_epochs"
    /\ ndiCall.data = <<>>
    /\ ndiQueries' = <<EpochsPath(ndiCall.ig_name, ndiCall.site_name)>>
    /\ ndiPc' = "raised"
    /\ UNCHANGED <<mainVars, ndiCall, ndiResult>>

FormatEventSeverity ==
    /\ ndiPc = "ready"
    /\ ndiCall.op = "format_event_severity"
    /\ ndiResult' = format_event_severity(ndiCall.input)
    /\ ndiPc' = "returned"
    /\ UNCHANGED <<mainVars, ndiCall, ndiQueries>>

FormatImpactedResource ==
    /\ ndiPc = "ready"
    /\ ndiCall.op = "format_impacted_resource"
    /\ ndiResult' = format_impacted_resource(ndiCall.input)
    /\ ndiPc' = "returned"
    /\ UNCHANGED <<mainVars, ndiCall, ndiQueries>>

NextNDI ==
    \/ QueryPcv
    \/ QueryPcvFails
    \/ GetEpochs
    \/ GetEpochsRaises
    \/ FormatEventSeverity
    \/ FormatImpactedResource

SpecNDI == InitNDI /\ [][NextNDI]_vars

\* ------------------------------------------------------------------ claims

FileKeys == {"uploadedFileExtension", "uploadedFileName"}

\* the current record diverges from the payload main() builds for it
Divergent == SanitizeDict(located, delete_keys) # BuildPayload(located)

\* C1: a present-state invocation that follows a successful non-dry-run
\* invocation with the same desired state issues no POST, PATCH or DELETE,
\* does not fail, and reports changed = false (previous equals existing).
C1_Idempotent ==
    (run >= 2 /\ prevMode = "wet" /\ params.state = "present") =>
        /\ MutLog(log) = <<>>
        /\ svc = svcAtStart
        /\ pc \notin {"failed", "crashed"}
        /\ pc = "done" => (~changed /\ previous = existing)

\* the second, non-dry-run invocation is done after the first one patched
\* the requirement
C1_Witness ==
    /\ run = 2 /\ prevMode = "wet" /\ params.state = "present"
    /\ ~params.check_mode
    /\ pc = "done"
    /\ MutLog(prevLog) # <<>>
    /\ MutLog(prevLog)[1].method = "PATCH"

\* C2: in check mode no POST, PATCH or DELETE is issued and the service is
\* left as it was, whatever the target state and the current state; the
\* delete of a present requirement reports existing = {}, and the present
\* state reports the payload as existing.
C2_DryRunSafe ==
    params.check_mode =>
        /\ MutLog(log) = <<>>
        /\ svc = svcAtStart
        /\ (pc = "done" /\ params.state = "absent" /\ uuid # NoneVal) =>
               existing = EmptyDict
        /\ (pc = "done" /\ params.state = "present") =>
               /\ existing = payload
               /\ SanitizeDict(existing, FileKeys) = BuildPayload(located)

\* a dry run is done for a requirement that is present and divergent
C2_Witness ==
    /\ params.check_mode
    /\ params.state = "present"
    /\ pc = "done"
    /\ uuid # NoneVal
    /\ Divergent

\* C3: state=absent with no template-based requirement of that name: no
\* mutating request, no failure, previous and existing as the lookup left
\* them, changed = false.
C3_DeleteAbsentNoop ==
    (params.state = "absent" /\ pc # "start" /\ uuid = NoneVal) =>
        /\ MutLog(log) = <<>>
        /\ svc = svcAtStart
        /\ pc \notin {"failed", "crashed"}
        /\ previous = EmptyDict
        /\ existing = located
        /\ pc = "done" => ~changed

\* a non-dry-run delete is done while the service holds only a requirement
\* of another kind with that name
C3_Witness ==
    /\ params.state = "absent"
    /\ ~params.check_mode
    /\ pc = "done"
    /\ uuid = NoneVal
    /\ svc = <<OtherKind>>

\* the file of the located requirement is not the base name of the file given
C4_Case ==
    /\ params.state = "present"
    /\ pc \notin {"start", "located"}
    /\ "uuid" \in DOMAIN located
    /\ FormatDot(GetStr(located, "uploadedFileName"),
                 GetStr(located, "uploadedFileExtension")) # Basename(params.file)

\* C4: state=present and the existing requirement's file name.extension is
\* not the base name of the file given: the invocation fails with the
\* file-mismatch message having issued nothing but the read of the
\* requirements; no PATCH or POST is sent and the service is unchanged.
C4_FileMismatchFatal ==
    C4_Case =>
        /\ pc = "failed"
        /\ failMsg = "file mismatch"
        /\ MutLog(log) = <<>>
        /\ log = <<Request("GET", RequirementsPath, NoneVal, NoneVal)>>
        /\ svc = svcAtStart

\* a non-dry-run update whose file differs from the attached one only in
\* the extension has failed
C4_Witness ==
    /\ C4_Case
    /\ ~params.check_mode
    /\ GetStr(located, "uploadedFileName") = RSplitDot(Basename(params.file))[1]
    /\ pc = "failed"

\* C6: state=present, not check mode, no requirement of that name: at most
\* one mutating request, a POST to <requirements path>/file that carries the
\* payload and the file, exactly one once the request step is passed; the
\* reported existing has the desired name and enabled.
C6_Create ==
    (params.state = "present" /\ ~params.check_mode /\ pc # "start" /\ uuid = NoneVal) =>
        LET m == MutLog(log)
        IN  /\ Len(m) <= 1
            /\ \A i \in 1..Len(m) :
                   /\ m[i].method = "POST"
                   /\ m[i].path = RequirementsPath \o <<"file">>
                   /\ m[i].data = Update(BuildPayload(EmptyDict), "uploadedFileName",
                                         params.file)
                   /\ m[i].file = Abspath(params.file)
            /\ pc \in {"present_set", "exit", "done", "crashed", "failed"} => Len(m) = 1
            /\ pc \in {"exit", "done"} =>
                   /\ existing.name = params.name
                   /\ existing.enabled = params.enabled

\* a create is done: req1, enabled, siteA, the file d/a.j
C6_Witness ==
    /\ params.state = "present" /\ ~params.check_mode /\ uuid = NoneVal
    /\ pc = "done"
    /\ params.enabled = TRUE
    /\ params.sites = <<"siteA">>
    /\ params.file = <<"d", "/", "a", ".", "j">>
    /\ changed

\* C7: state=absent, not check mode, a requirement located with uuid U: at
\* most one mutating request, a DELETE with data {"ids": [U]}, exactly one
\* once the request step is passed; then existing = {}, previous is the
\* sanitized record, the requirement is gone and changed is reported.
C7_Delete ==
    (params.state = "absent" /\ ~params.check_mode /\ "uuid" \in DOMAIN located) =>
        LET m == MutLog(log)
        IN  /\ Len(m) <= 1
            /\ \A i \in 1..Len(m) :
                   /\ m[i].method = "DELETE"
                   /\ m[i].path = RequirementsPath
                   /\ m[i].data = [ids |-> <<located.uuid>>]
            /\ pc \in {"exit", "done", "failed"} => Len(m) = 1
            /\ pc \in {"exit", "done"} =>
                   /\ existing = EmptyDict
                   /\ previous = SanitizeDict(located, delete_keys)
                   /\ LocateUuid(FilterRequirements(svc), params.name) = NoneVal
            /\ pc = "done" => changed

\* a delete is done next to a requirement of another kind, which stays
C7_Witness ==
    /\ params.state = "absent" /\ ~params.check_mode
    /\ "uuid" \in DOMAIN located
    /\ pc = "done"
    /\ svc = <<OtherKind>>

\* C10: when a DELETE, PATCH or POST has been issued, nd.previous had been
\* assigned the sanitized copy of the located record ({} when absent) before
\* it, and a failure of that request leaves previous at that value.
C10_SnapshotFirst ==
    MutLog(log) # <<>> =>
        /\ previousSet
        /\ prevAtRequest = <<SanitizeDict(located, delete_keys)>>
        /\ pc = "failed" => previous = SanitizeDict(located, delete_keys)

\* the service has refused the PATCH of a present requirement
C10_Witness ==
    /\ pc = "failed"
    /\ failMsg = "service error"
    /\ params.state = "present"
    /\ uuid # NoneVal
    /\ MutLog(log)[1].method = "PATCH"

\* C5: query_pcv without a site name or without a validation name fails
\* before anything is read from the service.
C5_RejectBeforeNetwork ==
    (/\ ndiCall.op = "query_pcv"
     /\ ndiPc # "ready"
     /\ (ndiCall.site_name = NoneVal \/ ndiCall.pcv_name = NoneVal)) =>
        /\ ndiPc = "failed"
        /\ ndiQueries = <<>>

\* the leaves of a severity list: (category, epoch, count)
SeverityLeaves(events) ==
    UNION { { <<SeverityType(events[i].bucket), Lower(events[i].output[j].bucket),
                events[i].output[j].count>> : j \in 1..Len(events[i].output) }
            : i \in 1..Len(events) }

\* the leaves of an impacted-resource list: (resource, epoch, count)
ResourceLeaves(resources) ==
    UNION { UNION { { <<Lower(resources[i].bucket),
                        Lower(resources[i].output[j].output[k].bucket),
                        resources[i].output[j].output[k].count>>
                      : k \in 1..Len(resources[i].output[j].output) }
                    : j \in 1..Len(resources[i].output) }
            : i \in 1..Len(resources) }

\* the (category, epoch, count) triples of a flattened mapping
Flattened(result) ==
    UNION { { <<c, e, result[c][e]>> : e \in DOMAIN result[c] } : c \in DOMAIN result }

\* C8: the mapping either formatter returns holds exactly the leaves of its
\* input, each under its (category, epoch) key with its count.
C8_Lossless ==
    /\ (ndiCall.op = "format_event_severity" /\ ndiPc = "returned") =>
           Flattened(ndiResult) = SeverityLeaves(ndiCall.input)
    /\ (ndiCall.op = "format_impacted_resource" /\ ndiPc = "returned") =>
           Flattened(ndiResult) = ResourceLeaves(ndiCall.input)

\* C9: get_epochs reads once and returns; None when the data list is empty,
\* else its first element.
C9_EmptyEpochsNotFound ==
    (ndiCall.op = "get_epochs" /\ ndiPc # "ready") =>
        /\ Len(ndiQueries) = 1
        /\ ndiPc = "returned"
        /\ IF ndiCall.data = <<>> THEN ndiResult = NoneVal
           ELSE ndiResult = ndiCall.data[1]

====
